---- MODULE Spec2Model ----
(***************************************************************************)
(* Job lifecycle and artifact chain of the PDF anonymizer.                 *)
(*                                                                         *)
(* One job is followed from the moment create_job has returned.  The       *)
(* state is the job's database row, the files under the storage root, the  *)
(* Celery queue, the Celery worker processes (each runs one task at a      *)
(* time and owns one SIGALRM timer) and the API requests in flight.        *)
(*                                                                         *)
(* A step of a Celery task is the code between two session.commit()        *)
(* calls: the row is written at the commit, with the attributes the code   *)
(* assigned.  text_replace, delete_blocks and delete_pages are three       *)
(* steps each (session.get, the PDF work up to doc.save, the commit),      *)
(* because another request or a task can run between them.  retry_job,     *)
(* render_output and submit_decisions do no work between their get and     *)
(* their commit and are one step each.                                     *)
(***************************************************************************)
EXTENDS Integers, Sequences, FiniteSets, TLC

VARIABLES
    job,        \* the row of table "jobs" (models/job.py: Job)
    files,      \* storage root: path -> artifact
    clock,      \* logical time: advanced by every file write; it stamps
                \* the files written and is what datetime.utcnow() reads
    queue,      \* Celery broker queue: task names in order of .delay()
    workers,    \* Celery worker processes: the task each runs and its locals
    alarm,      \* per worker process: a SIGALRM timer is armed
    inflight,   \* API requests between session.get and their response
    nreq,       \* number of API requests received
    resp,       \* last HTTP response sent
    document    \* table "documents": its one row, "d1" (models/document.py:
                \* Document)

vars == <<job, files, clock, queue, workers, alarm, inflight, nreq, resp,
          document>>

----------------------------------------------------------------------------
(* Bounds of the model *)

MaxRequests == 2      \* API requests received in one behaviour
MaxInflight == 2      \* API requests in flight at the same time
NumWorkers == 1       \* Celery worker processes
SmallDoc == 3         \* page count of the small uploaded document

(* Program constants *)

MAX_PAGES_FOR_AI == 15
MAX_FILE_SIZE_MB == 30

\* DigitalTwin.confidence in hundredths: the field's default, which
\* extract_digital_twin never replaces
TwinConfidence == 0

----------------------------------------------------------------------------
(* Values *)

None == "None"

InputFile    == "inputs/f.pdf"
ReplacedFile == "outputs/replaced_f.pdf"
BlocksFile   == "outputs/blocks_removed_f.pdf"
PagesFile    == "outputs/pages_removed_f.pdf"
AnonFile     == "outputs/anonymized_f.pdf"
TwinFile     == "outputs/digital_twin.json"
AuditFile    == "outputs/audit.json"

ThumbsDir    == "thumbnails"

PdfPaths == {InputFile, ReplacedFile, BlocksFile, PagesFile, AnonFile}
Paths == PdfPaths \cup {TwinFile, AuditFile, ThumbsDir}

\* An artifact: ver is the stamp of the write that produced it (0: no such
\* file), pages its content (the original page ids a PDF holds in order, for
\* the anonymized PDF each with the fills that cover parts of it; the
\* records of a JSON file; the page_<i>.png files of the thumbnail
\* directory), size_mb its size in megabytes.
NoFile == [ver |-> 0, pages |-> <<>>, size_mb |-> 0]
Exists(p) == p # None /\ files[p].ver > 0

Workers == 1 .. NumWorkers

Min(a, b) == IF a < b THEN a ELSE b

Range(s) == {s[i] : i \in 1 .. Len(s)}

Pages(n) == [i \in 1 .. n |-> i]

\* Optional JSON columns: <<>> is NULL, <<v>> is the stored value v.
Null == <<>>
Some(v) == <<v>>
Stored(column) == IF column = Null THEN <<>> ELSE column[1]

\* A finding; confidence is in hundredths (0 .. 100 for 0.0 .. 1.0).
ScoredFinding(id, page, action, confidence) ==
    [id |-> id, page |-> page, suggested_action |-> action,
     confidence |-> confidence]

\* A finding the classifier is sure of.
Finding(id, page, action) == ScoredFinding(id, page, action, 100)

\* What detect_sensitive_data can return for n page images: findings carry
\* the 1-indexed page the classifier saw them on.
FindingChoices(n) ==
    { <<>>,
      <<ScoredFinding("f1", n, "remove", 90)>>,
      <<ScoredFinding("f1", 1, "keep", 50)>> }

Decision(id, action) == [item_id |-> id, action |-> action]

DecisionChoices ==
    { <<Decision("f1", "keep")>>, <<Decision("f1", "mask")>> }

\* Page lists a delete-pages request can carry (0-indexed page numbers).
PageLists == { <<0>>, <<2, 0>>, <<SmallDoc>> }

\* Block lists a delete-blocks request can carry: the 0-indexed page of
\* each block (every block has a bbox).
BlockLists == { <<0, SmallDoc>> }

\* The page numbers in the body of a request: the pages of delete_pages,
\* the pages of the blocks of delete_blocks; text_replace is taken without
\* page numbers.
RequestPages(op) ==
    CASE op = "delete_pages"  -> PageLists
      [] op = "delete_blocks" -> BlockLists
      [] OTHER                -> {<<>>}

----------------------------------------------------------------------------
(* Initial state: create_job has stored the upload, committed input_path    *)
(* and queued process_document.                                           *)

NewJob(mode) ==
    [ status |-> "queued", progress |-> 0, mode |-> mode,
      document_id |-> None, page_count |-> 0, confidence |-> 0,
      input_path |-> InputFile, output_pdf_path |-> None,
      output_json_path |-> None, audit_path |-> None,
      sections_json |-> Null, findings_json |-> Null,
      digital_twin_json |-> Null, decisions_json |-> Null,
      error_message |-> None, completed_at |-> 0, updated_at |-> 0 ]

\* Table "documents" without a row.
NoDocument == [row |-> FALSE, pinned |-> FALSE]

IdleWorker ==
    [ task |-> "idle", pc |-> "idle", err |-> None,
      size_mb |-> 0, src |-> 0, doc |-> <<>>, page_images |-> <<>>,
      decisions |-> <<>>, findings |-> <<>>, redactions |-> <<>>,
      calls |-> <<>>,
      dynamic_timeout |-> 0, watchdog |-> 0, classifier |-> <<>>,
      opdf |-> None, ojson |-> None, twin |-> FALSE ]

Init ==
    /\ \E mode \in {"unify", "layout"} : job = NewJob(mode)
    /\ \E n \in {SmallDoc, MAX_PAGES_FOR_AI + 1},
          mb \in {MAX_FILE_SIZE_MB, MAX_FILE_SIZE_MB + 1} :
          files = [p \in Paths |->
                     IF p = InputFile
                     THEN [ver |-> 1, pages |-> Pages(n), size_mb |-> mb]
                     ELSE NoFile]
    /\ clock = 1
    /\ queue = <<"process_document">>
    /\ workers = [w \in Workers |-> IdleWorker]
    /\ alarm = [w \in Workers |-> FALSE]
    /\ inflight = {}
    /\ nreq = 0
    /\ resp = [id |-> 0, op |-> None, code |-> 0, detail |-> <<>>, count |-> 0]
    /\ document = NoDocument

----------------------------------------------------------------------------
(* PDF documents (PyMuPDF) *)

\* fitz.Document.delete_page(i): drop the page at 0-indexed position i.
DeletePage(doc, i) == SubSeq(doc, 1, i) \o SubSeq(doc, i + 2, Len(doc))

Max(S) == CHOOSE x \in S : \A y \in S : y <= x

\* sorted(set(pages), reverse=True)
RECURSIVE SortedDesc(_)
SortedDesc(S) ==
    IF S = {} THEN <<>> ELSE <<Max(S)>> \o SortedDesc(S \ {Max(S)})

\* for page_num in pages_to_delete: doc.delete_page(page_num)
RECURSIVE DeleteEach(_, _)
DeleteEach(doc, order) ==
    IF order = <<>> THEN doc
    ELSE DeleteEach(DeletePage(doc, Head(order)), Tail(order))

\* The check as it would be with "p > original_count"
InvalidPages_OffByOne(pages, original_count) ==
    SelectSeq(pages, LAMBDA p : p < 0 \/ p > original_count)

\* invalid_pages = [p for p in pages if p < 0 or p >= original_count]
InvalidPages(pages, original_count) ==
    SelectSeq(pages, LAMBDA p : p < 0 \/ p >= original_count)

\* fitz.Document.save(path) refuses to write over the file the document was
\* opened from ("save to original must be incremental") and refuses a
\* document without pages; in both cases it raises before writing.
SaveRaises(opened, out, doc) == out = opened \/ doc = <<>>

\* generate_thumbnails: page_<i>.png for every page of the document; each
\* thumbnail is known by the artifact (its stamp) and the page it shows.
Thumbnails(ver, doc) == [i \in 1 .. Len(doc) |-> [of |-> ver, page |-> doc[i]]]

\* The thumbnail directory after generate_thumbnails wrote into it: files
\* of the same name are replaced, the others stay.
Regenerated(old, new) == new \o SubSeq(old, Len(new) + 1, Len(old))

ThumbsWritten(fs, thumbs) ==
    [fs EXCEPT ![ThumbsDir] = [ver |-> 1, pages |-> thumbs, size_mb |-> 0]]

\* The file a save or write_text leaves at path p.
Written(fs, p, doc, mb, stamp) ==
    [fs EXCEPT ![p] = [ver |-> stamp, pages |-> doc, size_mb |-> mb]]

\* A call on a page of the open document: add_redact_annot (mark),
\* draw_rect (draw), insert_text (insert), each with the finding or the
\* text it is made for, or apply_redactions (flatten), which removes the
\* content under the marks of the page.
PageCall(op, page, id) == [op |-> op, page |-> page, id |-> id]

----------------------------------------------------------------------------
(* API requests *)

\* The HTTP response: status code; for an error that lists values, the
\* values in its detail; for delete_blocks its deleted_count and for
\* delete_pages its new_page_count.
RespondBody(id, op, code, detail, count) ==
    resp' = [id |-> id, op |-> op, code |-> code, detail |-> detail,
             count |-> count]

RespondWith(id, op, code, detail) == RespondBody(id, op, code, detail, 0)

Respond(id, op, code) == RespondBody(id, op, code, <<>>, 0)

\* retry_job as it would be without "job.error_message = None"
RetryJob_KeepsError ==
    /\ nreq < MaxRequests
    /\ nreq' = nreq + 1
    /\ IF job.status \in {"done", "queued"}
       THEN /\ Respond(nreq + 1, "retry", 400)
            /\ UNCHANGED <<job, queue>>
       ELSE /\ job' = [job EXCEPT !.status = "queued", !.progress = 0]
            /\ queue' = Append(queue, "process_document")
            /\ Respond(nreq + 1, "retry", 200)
    /\ UNCHANGED <<files, clock, workers, alarm, inflight, document>>

\* retry_job as it would be if only done jobs were refused
RetryJob_RefusesDoneOnly ==
    /\ nreq < MaxRequests
    /\ nreq' = nreq + 1
    /\ IF job.status = "done"
       THEN /\ Respond(nreq + 1, "retry", 400)
            /\ UNCHANGED <<job, queue>>
       ELSE /\ job' = [job EXCEPT !.status = "queued", !.progress = 0,
                                  !.error_message = None]
            /\ queue' = Append(queue, "process_document")
            /\ Respond(nreq + 1, "retry", 200)
    /\ UNCHANGED <<files, clock, workers, alarm, inflight, document>>

\* retry_job
RetryJob ==
    /\ nreq < MaxRequests
    /\ nreq' = nreq + 1
    /\ IF job.status \in {"done", "queued"}
       THEN /\ Respond(nreq + 1, "retry", 400)
            /\ UNCHANGED <<job, queue>>
       ELSE /\ job' = [job EXCEPT !.status = "queued", !.progress = 0,
                                  !.error_message = None]
            /\ queue' = Append(queue, "process_document")
            /\ Respond(nreq + 1, "retry", 200)
    /\ UNCHANGED <<files, clock, workers, alarm, inflight, document>>

\* render_output
RenderOutput ==
    /\ nreq < MaxRequests
    /\ nreq' = nreq + 1
    /\ job' = [job EXCEPT !.status = "rendering"]
    /\ queue' = Append(queue, "render_document")
    /\ Respond(nreq + 1, "render", 200)
    /\ UNCHANGED <<files, clock, workers, alarm, inflight, document>>

\* submit_decisions as it would be if it started the rendering itself
SubmitDecisions_StartsRender(decisions) ==
    /\ nreq < MaxRequests
    /\ nreq' = nreq + 1
    /\ job' = [job EXCEPT !.decisions_json = Some(decisions),
                          !.updated_at = clock,
                          !.status = "rendering"]
    /\ queue' = Append(queue, "render_document")
    /\ Respond(nreq + 1, "decisions", 200)
    /\ UNCHANGED <<files, clock, workers, alarm, inflight, document>>

\* submit_decisions
SubmitDecisions(decisions) ==
    /\ nreq < MaxRequests
    /\ nreq' = nreq + 1
    /\ job' = [job EXCEPT !.decisions_json = Some(decisions),
                          !.updated_at = clock]
    /\ Respond(nreq + 1, "decisions", 200)
    /\ UNCHANGED <<files, clock, queue, workers, alarm, inflight, document>>

\* update_document with {"pinned": pinned}
UpdateDocument(pinned) ==
    /\ nreq < MaxRequests
    /\ nreq' = nreq + 1
    /\ IF ~document.row
       THEN /\ Respond(nreq + 1, "update_document", 404)
            /\ UNCHANGED document
       ELSE /\ document' = [document EXCEPT !.pinned = pinned]
            /\ Respond(nreq + 1, "update_document", 200)
    /\ UNCHANGED <<job, files, clock, queue, workers, alarm, inflight>>

\* delete_document.  The row a job's document_id names cannot be deleted:
\* the foreign key jobs.document_id makes the commit raise IntegrityError.
DeleteDocument ==
    /\ nreq < MaxRequests
    /\ nreq' = nreq + 1
    /\ IF ~document.row
       THEN /\ Respond(nreq + 1, "delete_document", 404)
            /\ UNCHANGED document
       ELSE IF document.pinned
       THEN /\ Respond(nreq + 1, "delete_document", 400)
            /\ UNCHANGED document
       ELSE IF job.document_id # None
       THEN /\ Respond(nreq + 1, "delete_document", 500)
            /\ UNCHANGED document
       ELSE /\ document' = NoDocument
            /\ Respond(nreq + 1, "delete_document", 200)
    /\ UNCHANGED <<job, files, clock, queue, workers, alarm, inflight>>

MutatingOps == {"text_replace", "delete_blocks", "delete_pages"}

\* output_path of each mutating endpoint
OutputPath(op) ==
    CASE op = "text_replace"  -> ReplacedFile
      [] op = "delete_blocks" -> BlocksFile
      [] op = "delete_pages"  -> PagesFile

\* text_replace, delete_blocks, delete_pages: job = await session.get(...).
\* The request keeps the row as it read it (expire_on_commit=False).  Its
\* body is the list pages (delete_pages), the list of blocks by their pages
\* (delete_blocks) or the list replacements (text_replace).
MutRequest(op, pages, replacements) ==
    /\ nreq < MaxRequests
    /\ Cardinality(inflight) < MaxInflight
    /\ nreq' = nreq + 1
    /\ inflight' = inflight \cup
          {[ id |-> nreq + 1, op |-> op, pages |-> pages,
             replacements |-> replacements, pc |-> "loaded",
             input_path |-> job.input_path, out |-> None, new_count |-> 0,
             calls |-> <<>>, changes |-> <<>> ]}
    /\ UNCHANGED <<job, files, clock, queue, workers, alarm, resp, document>>

\* A request whose body names pages; a text_replace without replacements.
MutLoad(op, pages) == MutRequest(op, pages, <<>>)

\* TextReplacement: find, replace and page (None = all pages, else a
\* 0-indexed page number).
TextReplacement(find, replace, page) ==
    [find |-> find, replace |-> replace, page |-> page]

\* The words on an original page of the uploaded document, in reading order.
PageText(p) ==
    CASE p = 1 -> <<"anna", "nowak", "anna">>
      [] p = 2 -> <<"nowak">>
      [] OTHER -> <<>>

\* A search that stops at the first occurrence
SearchFor_FirstOnly(words, find, from) ==
    IF \E i \in from .. Len(words) : words[i] = find
    THEN <<CHOOSE i \in from .. Len(words) :
              /\ words[i] = find
              /\ \A k \in from .. i - 1 : words[k] # find>>
    ELSE <<>>

\* page.search_for(find): the occurrences of find on a page, by position.
RECURSIVE SearchFor(_, _, _)
SearchFor(words, find, from) ==
    IF from > Len(words) THEN <<>>
    ELSE (IF words[from] = find THEN <<from>> ELSE <<>>)
         \o SearchFor(words, find, from + 1)

\* pages_to_check = [repl.page] if repl.page is not None else range(len(doc))
PagesToCheck(repl, n) ==
    IF repl.page = Null THEN [i \in 1 .. n |-> i - 1] ELSE repl.page

\* The calls text_replace makes on the page for one occurrence: an empty
\* replacement marks it for redaction, any other covers it and inserts the
\* new text.
MatchCalls_FlattenEach(repl, page_num) ==
    IF repl.replace = ""
    THEN <<PageCall("mark", page_num, repl.find),
           PageCall("flatten", page_num, None)>>
    ELSE <<PageCall("draw", page_num, repl.find),
           PageCall("insert", page_num, repl.replace),
           PageCall("flatten", page_num, None)>>

MatchCalls(repl, page_num) ==
    IF repl.replace = ""
    THEN <<PageCall("mark", page_num, repl.find)>>
    ELSE <<PageCall("draw", page_num, repl.find),
           PageCall("insert", page_num, repl.replace)>>

\* changes_made.append({...})
Change(repl, page_num, inst) ==
    [page |-> page_num, find |-> repl.find, replace |-> repl.replace,
     bbox |-> inst,
     action |-> IF repl.replace = "" THEN "delete" ELSE "replace"]

\* The state of text_replace inside its loops: text is the words of each
\* page of the open document (inserted text is on the page at once, marked
\* and covered text stays until the flatten), calls the calls made on the
\* pages so far, changes is changes_made.
RECURSIVE ForInstances(_, _, _, _)
ForInstances(st, repl, page_num, insts) ==
    IF insts = <<>> THEN st
    ELSE ForInstances(
            [st EXCEPT
                !.text[page_num + 1] =
                    IF repl.replace = "" THEN @ ELSE Append(@, repl.replace),
                !.calls = @ \o MatchCalls(repl, page_num),
                !.changes = Append(@, Change(repl, page_num, Head(insts)))],
            repl, page_num, Tail(insts))

\* for page_num in pages_to_check: a page_num at or past len(doc) is
\* skipped.
RECURSIVE ForPages(_, _, _)
ForPages(st, repl, pages_to_check) ==
    IF pages_to_check = <<>> THEN st
    ELSE LET page_num == Head(pages_to_check)
             after == IF page_num >= Len(st.text) THEN st
                      ELSE ForInstances(st, repl, page_num,
                              SearchFor(st.text[page_num + 1], repl.find, 1))
         IN  ForPages(after, repl, Tail(pages_to_check))

\* for repl_data in replacements
RECURSIVE ForReplacements(_, _)
ForReplacements(st, replacements) ==
    IF replacements = <<>> THEN st
    ELSE LET repl == Head(replacements)
         IN  ForReplacements(
                ForPages(st, repl, PagesToCheck(repl, Len(st.text))),
                Tail(replacements))

\* "# Apply redactions": page.apply_redactions() on every page of the
\* document, once the loops are over.
FlattenPass(n) == [i \in 1 .. n |-> PageCall("flatten", i - 1, None)]

\* text_replace from fitz.open to the last page.apply_redactions().
Replaced(doc, replacements) ==
    LET st == ForReplacements(
                 [text |-> [i \in 1 .. Len(doc) |-> PageText(doc[i])],
                  calls |-> <<>>, changes |-> <<>>],
                 replacements)
    IN  [st EXCEPT !.calls = @ \o FlattenPass(Len(doc))]

\* The document a mutating endpoint holds when it calls doc.save.
Mutated(h, doc) ==
    IF h.op = "delete_pages"
    THEN DeleteEach(doc, SortedDesc(Range(h.pages)))
    ELSE doc

\* delete_blocks skips a block whose page_num is at or past len(doc)
\* ("continue"); doc[page_num] counts a negative page_num from the end and
\* raises IndexError below -len(doc).
BlockRaises(blocks, n) == \E i \in 1 .. Len(blocks) : blocks[i] < -n

\* The HTTP error a mutating endpoint raises before it saves, 0 if none.
\* Path(settings.storage_path) / job.input_path raises TypeError when the
\* column is NULL.
MutError(h) ==
    IF h.op = "delete_pages" /\ h.pages = <<>> THEN 400
    ELSE IF h.input_path = None THEN 500
    ELSE IF ~Exists(h.input_path) THEN 404
    ELSE IF h.op = "delete_pages"
            /\ InvalidPages(h.pages, Len(files[h.input_path].pages)) # <<>>
         THEN 400
    ELSE IF h.op = "delete_blocks"
            /\ BlockRaises(h.pages, Len(files[h.input_path].pages))
         THEN 500
    ELSE IF SaveRaises(h.input_path, OutputPath(h.op),
                       Mutated(h, files[h.input_path].pages))
         THEN 500
    ELSE 0

\* detail=f"Invalid page numbers: {invalid_pages}"
MutDetail(h) ==
    IF /\ h.op = "delete_pages" /\ h.pages # <<>> /\ Exists(h.input_path)
       /\ MutError(h) = 400
    THEN InvalidPages(h.pages, Len(files[h.input_path].pages))
    ELSE <<>>

\* From the existence check to doc.save(output_path).
MutWork(h) ==
    /\ h \in inflight
    /\ h.pc = "loaded"
    /\ IF MutError(h) # 0
       THEN /\ RespondWith(h.id, h.op, MutError(h), MutDetail(h))
            /\ inflight' = inflight \ {h}
            /\ UNCHANGED <<files, clock>>
       ELSE LET doc == Mutated(h, files[h.input_path].pages)
                out == OutputPath(h.op)
            IN  /\ files' = Written(files, out, doc, files[h.input_path].size_mb,
                                    clock + 1)
                /\ clock' = clock + 1
                /\ inflight' = (inflight \ {h}) \cup
                      {[h EXCEPT !.pc = "saved", !.out = out,
                                 !.new_count = Len(doc),
                                 !.calls =
                                    IF h.op = "text_replace"
                                    THEN Replaced(doc, h.replacements).calls
                                    ELSE @,
                                 !.changes =
                                    IF h.op = "text_replace"
                                    THEN Replaced(doc, h.replacements).changes
                                    ELSE @]}
                /\ UNCHANGED resp
    /\ UNCHANGED <<job, queue, workers, alarm, nreq, document>>

\* The row as it would be if text_replace set the status alone
MutUpdate_StatusOnly(h, j, t) ==
    CASE h.op = "text_replace" ->
            [j EXCEPT !.status = "done"]
      [] h.op = "delete_blocks" ->
            [j EXCEPT !.input_path = h.out, !.output_pdf_path = h.out,
                      !.status = "done", !.completed_at = t]
      [] h.op = "delete_pages" ->
            [j EXCEPT !.input_path = h.out, !.output_pdf_path = h.out,
                      !.page_count = h.new_count, !.status = "done",
                      !.completed_at = t]

\* The row a mutating endpoint commits ("# Update job").
MutUpdate(h, j, t) ==
    CASE h.op = "text_replace" ->
            [j EXCEPT !.output_pdf_path = h.out, !.status = "done",
                      !.completed_at = t]
      [] h.op = "delete_blocks" ->
            [j EXCEPT !.input_path = h.out, !.output_pdf_path = h.out,
                      !.status = "done", !.completed_at = t]
      [] h.op = "delete_pages" ->
            [j EXCEPT !.input_path = h.out, !.output_pdf_path = h.out,
                      !.page_count = h.new_count, !.status = "done",
                      !.completed_at = t]

\* "# Update job" ... await session.commit()
MutCommit(h) ==
    /\ h \in inflight
    /\ h.pc = "saved"
    /\ job' = MutUpdate(h, job, clock)
    /\ inflight' = (inflight \ {h}) \cup {[h EXCEPT !.pc = "committed"]}
    /\ UNCHANGED <<files, clock, queue, workers, alarm, nreq, resp, document>>

\* The thumbnails a mutating endpoint leaves: delete_pages removes the
\* directory first, text_replace and delete_blocks write into it.
MutThumbnails(h, old, new) ==
    IF h.op = "delete_pages" THEN new ELSE Regenerated(old, new)

\* "deleted_count": len(blocks), "new_page_count": new_count and
\* "changes_count": len(changes_made); the response of text_replace carries
\* changes_made itself, which the handler holds in changes.
ResponseCount(h) ==
    CASE h.op = "delete_blocks" -> Len(h.pages)
      [] h.op = "delete_pages"  -> h.new_count
      [] OTHER                  -> Len(h.changes)

\* "# Regenerate thumbnails" from the file at output_path, then the response.
MutThumbs(h) ==
    /\ h \in inflight
    /\ h.pc = "committed"
    /\ files' = ThumbsWritten(files,
                    MutThumbnails(h, files[ThumbsDir].pages,
                                  Thumbnails(files[h.out].ver, files[h.out].pages)))
    /\ RespondBody(h.id, h.op, 200, <<>>, ResponseCount(h))
    /\ inflight' = inflight \ {h}
    /\ UNCHANGED <<job, clock, queue, workers, alarm, nreq, document>>

\* The request stops after doc.save, before its commit or before the
\* thumbnails (the call raises, the server process dies): nothing more is
\* written.
MutAbort(h) ==
    /\ h \in inflight
    /\ h.pc \in {"saved", "committed"}
    /\ Respond(h.id, h.op, 500)
    /\ inflight' = inflight \ {h}
    /\ UNCHANGED <<job, files, clock, queue, workers, alarm, nreq, document>>

----------------------------------------------------------------------------
(* Job creation: create_job (upload endpoint) and PDFHandler._process_file *)
(* (watch folder).  Both commit the row first, then store the file, then   *)
(* commit input_path, then queue process_document.                         *)

CreateOps == {"create_job", "watcher"}

\* The creator of the job, right after session.add(job); commit(); refresh.
Creator(op) ==
    [ id |-> 0, op |-> op, pages |-> <<>>, replacements |-> <<>>,
      pc |-> "row", input_path |-> None, out |-> None, new_count |-> 0,
      calls |-> <<>>, changes |-> <<>> ]

\* "# Save uploaded file" / "# Move file to storage"
CreateStore(h) ==
    /\ h \in inflight /\ h.op \in CreateOps /\ h.pc = "row"
    /\ files' = Written(files, InputFile, Pages(SmallDoc), MAX_FILE_SIZE_MB,
                        clock + 1)
    /\ clock' = clock + 1
    /\ inflight' = (inflight \ {h}) \cup {[h EXCEPT !.pc = "stored"]}
    /\ UNCHANGED <<job, queue, workers, alarm, nreq, resp, document>>

\* Storing the file raises (mkdir, write or shutil.move fails): create_job
\* answers 500; the watcher prints the error and rolls back, which undoes
\* nothing, the row being committed.  The row stays as it is.
CreateFails(h) ==
    /\ h \in inflight /\ h.op \in CreateOps /\ h.pc = "row"
    /\ inflight' = inflight \ {h}
    /\ IF h.op = "create_job" THEN Respond(h.id, h.op, 500)
       ELSE UNCHANGED resp
    /\ UNCHANGED <<job, files, clock, queue, workers, alarm, nreq, document>>

\* "# Update job with file path": job.input_path = ...; commit()
CreatePath(h) ==
    /\ h \in inflight /\ h.op \in CreateOps /\ h.pc = "stored"
    /\ job' = [job EXCEPT !.input_path = InputFile]
    /\ inflight' = (inflight \ {h}) \cup {[h EXCEPT !.pc = "path"]}
    /\ UNCHANGED <<files, clock, queue, workers, alarm, nreq, resp, document>>

\* "# Trigger async processing": process_document.delay(str(job.id))
CreateDelay(h) ==
    /\ h \in inflight /\ h.op \in CreateOps /\ h.pc = "path"
    /\ queue' = Append(queue, "process_document")
    /\ inflight' = inflight \ {h}
    /\ IF h.op = "create_job" THEN Respond(h.id, h.op, 200)
       ELSE UNCHANGED resp
    /\ UNCHANGED <<job, files, clock, workers, alarm, nreq, document>>

----------------------------------------------------------------------------
(* Celery worker processes *)

SetWorker(w, rec) == workers' = [workers EXCEPT ![w] = rec]

At(w, task, pc) == workers[w].task = task /\ workers[w].pc = pc

\* A worker process takes the next task from the broker.  The task body
\* starts with get_db_session(), before its try block.
CeleryPick(w) ==
    /\ workers[w].task = "idle"
    /\ queue # <<>>
    /\ SetWorker(w, [IdleWorker EXCEPT !.task = Head(queue), !.pc = "start"])
    /\ queue' = Tail(queue)
    /\ UNCHANGED <<job, files, clock, alarm, inflight, nreq, resp, document>>

\* raise inside the try block: control goes to "except Exception as e"
Raise(w, msg) ==
    SetWorker(w, [workers[w] EXCEPT !.pc = "except", !.err = msg])

\* process_document: "# Update status" (status processing, progress 10)
ProcStart(w) ==
    /\ At(w, "process_document", "start")
    /\ job' = [job EXCEPT !.status = "processing", !.progress = 10]
    /\ SetWorker(w, [workers[w] EXCEPT !.pc = "open"])
    /\ UNCHANGED <<files, clock, queue, alarm, inflight, nreq, resp, document>>

\* process_document as it would be without "# Check file size limit"
ProcOpen_NoSizeCheck(w) ==
    /\ At(w, "process_document", "open")
    /\ LET f == files[job.input_path]
           n == Len(f.pages)
       IN  IF ~Exists(job.input_path)
           THEN Raise(w, "FileNotFoundError") /\ UNCHANGED job
           ELSE /\ job' = [job EXCEPT !.page_count = n]
                /\ SetWorker(w, [workers[w] EXCEPT
                       !.size_mb = f.size_mb,
                       !.src = f.ver, !.doc = f.pages,
                       !.pc = IF n > MAX_PAGES_FOR_AI THEN "pagecap"
                              ELSE "thumbnails"])
    /\ UNCHANGED <<files, clock, queue, alarm, inflight, nreq, resp, document>>

\* process_document: file size check, open the PDF, persist page_count
ProcOpen(w) ==
    /\ At(w, "process_document", "open")
    /\ LET f == files[job.input_path]
           n == Len(f.pages)
       IN  IF ~Exists(job.input_path)
           THEN Raise(w, "FileNotFoundError") /\ UNCHANGED job
           ELSE IF f.size_mb > MAX_FILE_SIZE_MB
           THEN /\ SetWorker(w, [workers[w] EXCEPT
                       !.size_mb = f.size_mb,
                       !.pc = "except", !.err = "Plik za duzy"])
                /\ UNCHANGED job
           ELSE /\ job' = [job EXCEPT !.page_count = n]
                /\ SetWorker(w, [workers[w] EXCEPT
                       !.size_mb = f.size_mb,
                       !.src = f.ver, !.doc = f.pages,
                       !.pc = IF n > MAX_PAGES_FOR_AI THEN "pagecap"
                              ELSE "thumbnails"])
    /\ UNCHANGED <<files, clock, queue, alarm, inflight, nreq, resp, document>>

\* process_document: "# Check page limit"
ProcPageCap(w) ==
    /\ At(w, "process_document", "pagecap")
    /\ job' = [job EXCEPT !.status = "review",
                          !.error_message = "Uwaga: AI przetworzy tylko pierwsze strony"]
    /\ SetWorker(w, [workers[w] EXCEPT !.pc = "thumbnails"])
    /\ UNCHANGED <<files, clock, queue, alarm, inflight, nreq, resp, document>>

\* process_document: "# Generate thumbnails" (progress 20)
ProcThumbnails(w) ==
    /\ At(w, "process_document", "thumbnails")
    /\ files' = ThumbsWritten(files,
                    Regenerated(files[ThumbsDir].pages,
                                Thumbnails(workers[w].src, workers[w].doc)))
    /\ job' = [job EXCEPT !.progress = 20]
    /\ SetWorker(w, [workers[w] EXCEPT !.pc = "pages"])
    /\ UNCHANGED <<clock, queue, alarm, inflight, nreq, resp, document>>

\* page_paths[:MAX_PAGES_FOR_AI]
Limited(page_paths) ==
    SubSeq(page_paths, 1, Min(Len(page_paths), MAX_PAGES_FOR_AI))

\* process_document as it would be with page_images read from page_paths
ProcPages_AllPages(w) ==
    /\ At(w, "process_document", "pages")
    /\ job' = [job EXCEPT !.progress = 30]
    /\ SetWorker(w, [workers[w] EXCEPT
           !.page_images = workers[w].doc,
           !.pc = "analyzing"])
    /\ UNCHANGED <<files, clock, queue, alarm, inflight, nreq, resp, document>>

\* process_document: render the page images, keep the first
\* MAX_PAGES_FOR_AI of them (progress 30)
ProcPages(w) ==
    /\ At(w, "process_document", "pages")
    /\ job' = [job EXCEPT !.progress = 30]
    /\ SetWorker(w, [workers[w] EXCEPT
           !.page_images = Limited(workers[w].doc),
           !.pc = "analyzing"])
    /\ UNCHANGED <<files, clock, queue, alarm, inflight, nreq, resp, document>>

\* process_document: "# Update status to analyzing" (progress 40)
ProcAnalyzing(w) ==
    /\ At(w, "process_document", "analyzing")
    /\ job' = [job EXCEPT !.status = "analyzing", !.progress = 40]
    /\ SetWorker(w, [workers[w] EXCEPT !.pc = "arm"])
    /\ UNCHANGED <<files, clock, queue, alarm, inflight, nreq, resp, document>>

\* The timeout as it would be if it were taken from the page count of the
\* document
DynamicTimeout_OfPageCount(w) ==
    Min(180, Max({60, Len(workers[w].doc) * 10}))

\* dynamic_timeout = min(180, max(60, len(page_images) * 10)), in seconds
DynamicTimeout(w) ==
    Min(180, Max({60, Len(workers[w].page_images) * 10}))

\* process_document: dynamic_timeout, signal.alarm(dynamic_timeout * 3);
\* watchdog is the number of seconds the alarm is set to.
ProcArm(w) ==
    /\ At(w, "process_document", "arm")
    /\ alarm' = [alarm EXCEPT ![w] = TRUE]
    /\ SetWorker(w, [workers[w] EXCEPT
           !.dynamic_timeout = DynamicTimeout(w),
           !.watchdog = DynamicTimeout(w) * 3,
           !.pc = "sections"])
    /\ UNCHANGED <<job, files, clock, queue, inflight, nreq, resp, document>>

\* What a classifier call does: it returns a parsed answer, it returns an
\* answer that does not parse (the service's own except returns the empty
\* result), or generate_content raises.
Outcomes == {"ok", "malformed", "raises"}

\* loop.run_until_complete(asyncio.wait_for(vertex_ai_service.<call>(...),
\* timeout=dynamic_timeout)): the worker's calls of the classifier so far,
\* each with the timeout it runs under.
Called(w, call) ==
    Append(workers[w].classifier,
           [call |-> call, timeout |-> workers[w].dynamic_timeout])

\* The classifier call raises: control goes to "except Exception as e"
CallRaises(w, call) ==
    SetWorker(w, [workers[w] EXCEPT !.pc = "except",
                                    !.err = "classifier unreachable",
                                    !.classifier = Called(w, call)])

\* process_document: detect_sections (progress 55)
ProcSections(w) ==
    /\ At(w, "process_document", "sections")
    /\ \E o \in Outcomes :
          IF o = "raises"
          THEN CallRaises(w, "detect_sections") /\ UNCHANGED job
          ELSE /\ job' = [job EXCEPT
                     !.sections_json =
                         Some(IF o = "ok" THEN <<"s1">> ELSE <<>>),
                     !.progress = 55]
               /\ SetWorker(w, [workers[w] EXCEPT
                      !.classifier = Called(w, "detect_sections"),
                      !.pc = "findings"])
    /\ UNCHANGED <<files, clock, queue, alarm, inflight, nreq, resp, document>>

\* process_document as it would be with the extraction called in every mode
ProcFindings_AlwaysTwin(w) ==
    /\ At(w, "process_document", "findings")
    /\ \E o \in Outcomes :
          IF o = "raises"
          THEN CallRaises(w, "detect_sensitive_data") /\ UNCHANGED job
          ELSE /\ \E fs \in IF o = "ok" THEN FindingChoices(Len(workers[w].page_images))
                            ELSE {<<>>} :
                     job' = [job EXCEPT !.findings_json = Some(fs),
                                        !.progress = 70]
               /\ SetWorker(w, [workers[w] EXCEPT
                      !.classifier = Called(w, "detect_sensitive_data"),
                      !.pc = "twin"])
    /\ UNCHANGED <<files, clock, queue, alarm, inflight, nreq, resp, document>>

\* process_document: detect_sensitive_data (progress 70)
ProcFindings(w) ==
    /\ At(w, "process_document", "findings")
    /\ \E o \in Outcomes :
          IF o = "raises"
          THEN CallRaises(w, "detect_sensitive_data") /\ UNCHANGED job
          ELSE /\ \E fs \in IF o = "ok" THEN FindingChoices(Len(workers[w].page_images))
                            ELSE {<<>>} :
                     job' = [job EXCEPT !.findings_json = Some(fs),
                                        !.progress = 70]
               /\ SetWorker(w, [workers[w] EXCEPT
                      !.classifier = Called(w, "detect_sensitive_data"),
                      !.pc = IF job.mode = "unify" THEN "twin" ELSE "finish"])
    /\ UNCHANGED <<files, clock, queue, alarm, inflight, nreq, resp, document>>

\* process_document: "# Mode A: Extract Digital Twin" (progress 85)
ProcTwin(w) ==
    /\ At(w, "process_document", "twin")
    /\ \E o \in Outcomes :
          IF o = "raises"
          THEN CallRaises(w, "extract_digital_twin") /\ UNCHANGED job
          ELSE /\ job' = [job EXCEPT
                     !.digital_twin_json =
                         Some(IF o = "ok" THEN "twin" ELSE "minimal twin"),
                     !.confidence = TwinConfidence,
                     !.progress = 85]
               /\ SetWorker(w, [workers[w] EXCEPT
                      !.classifier = Called(w, "extract_digital_twin"),
                      !.pc = "finish"])
    /\ UNCHANGED <<files, clock, queue, alarm, inflight, nreq, resp, document>>

RECURSIVE SumConfidence(_)
SumConfidence(findings) ==
    IF findings = <<>> THEN 0
    ELSE Head(findings).confidence + SumConfidence(Tail(findings))

\* sum(f.get("confidence", 0) for f in findings) / len(findings), in
\* hundredths (exact when the sum is a multiple of the length)
AvgConfidence(findings) == SumConfidence(findings) \div Len(findings)

\* "# Calculate overall confidence": job.confidence after it
OverallConfidence(j) ==
    IF j.findings_json # Null /\ Stored(j.findings_json) # <<>>
    THEN Max({j.confidence, AvgConfidence(Stored(j.findings_json))})
    ELSE j.confidence

\* process_document: signal.alarm(0), "# Calculate overall confidence",
\* "# Update to review status", return
ProcFinish(w) ==
    /\ At(w, "process_document", "finish")
    /\ alarm' = [alarm EXCEPT ![w] = FALSE]
    /\ job' = [job EXCEPT !.confidence = OverallConfidence(job),
                          !.status = "review", !.progress = 100]
    /\ SetWorker(w, IdleWorker)
    /\ UNCHANGED <<files, clock, queue, inflight, nreq, resp, document>>

\* "# Parse decisions": the dict item_id -> action built from the stored
\* list (a later entry for an id replaces an earlier one)
ParseDecisions(stored) ==
    [id \in {stored[i].item_id : i \in 1 .. Len(stored)} |->
        stored[Max({i \in 1 .. Len(stored) : stored[i].item_id = id})].action]

\* The action as it would be if the user's decisions were not consulted
EffectiveAction_SuggestedOnly(f, decisions) == f.suggested_action

\* decisions.get(finding_id, finding.get("suggested_action", "keep"))
EffectiveAction(f, decisions) ==
    IF f.id \in DOMAIN decisions THEN decisions[f.id] ELSE f.suggested_action

\* The findings render_document calls add_redaction for.
Redacted(findings, decisions) ==
    SelectSeq(findings,
              LAMBDA f : EffectiveAction(f, decisions) \in {"remove", "mask"})

Black == <<0, 0, 0>>
White == <<1, 1, 1>>

\* add_redaction with every action filled black
Fill_AlwaysBlack(action) == Black

\* add_redaction: fill_color is (0, 0, 0) unless action == "remove"
Fill(action) == IF action = "remove" THEN White ELSE Black

\* What add_redaction appends for finding f (page_num = page - 1).
Redaction(f, action) ==
    [id |-> f.id, page |-> f.page - 1, action |-> action, fill |-> Fill(action)]

\* self.redactions after the loop over the findings
Redactions(findings, decisions) ==
    LET r == Redacted(findings, decisions)
    IN  [k \in 1 .. Len(r) |-> Redaction(r[k], EffectiveAction(r[k], decisions))]

\* audit_data: findings_count and redactions_applied
AuditData(findings, decisions) ==
    [ findings_count |-> Len(findings),
      redactions_applied |->
          Cardinality({id \in DOMAIN decisions :
                          decisions[id] \in {"remove", "mask"}}) ]

\* add_redaction: self.doc[page_num] raises IndexError when page_num is not
\* below the page count (negative numbers count from the end).
PageMissing(doc, redacted) ==
    \E i \in 1 .. Len(redacted) : redacted[i].page - 1 >= Len(doc)

\* apply_redactions: the calls of its loop over self.redactions, in order.
\* Every redaction is marked and its page flattened right after.
RECURSIVE ApplyCalls(_)
ApplyCalls(redactions) ==
    IF redactions = <<>> THEN <<>>
    ELSE LET r == Head(redactions)
         IN  <<PageCall("mark", r.page, r.id), PageCall("flatten", r.page, None)>>
             \o ApplyCalls(Tail(redactions))

\* The 1-indexed position of doc[page_num] (a negative page_num counts
\* from the end).
Position(doc, page_num) ==
    IF page_num < 0 THEN Len(doc) + page_num + 1 ELSE page_num + 1

\* The document apply_redactions saves: every page with the fills of the
\* redactions applied to it, in the order they were applied.
RedactedDoc(doc, redactions) ==
    [i \in 1 .. Len(doc) |->
        LET mine == SelectSeq(redactions, LAMBDA r : Position(doc, r.page) = i)
        IN  [page |-> doc[i], fills |-> [k \in 1 .. Len(mine) |-> mine[k].fill]]]

\* render_document: job.status = "rendering"; session.commit()
RenderStart(w) ==
    /\ At(w, "render_document", "start")
    /\ job' = [job EXCEPT !.status = "rendering"]
    /\ SetWorker(w, [workers[w] EXCEPT !.pc = "redact"])
    /\ UNCHANGED <<files, clock, queue, alarm, inflight, nreq, resp, document>>

\* render_document: read the row, open job.input_path, queue the
\* redactions, anonymizer.apply_redactions(output_pdf), assign
\* job.output_pdf_path (not yet committed)
RenderRedact(w) ==
    /\ At(w, "render_document", "redact")
    /\ LET f == files[job.input_path]
           decisions == ParseDecisions(Stored(job.decisions_json))
           findings == Stored(job.findings_json)
           redacted == Redacted(findings, decisions)
       IN  IF ~Exists(job.input_path)
           THEN Raise(w, "FileNotFoundError") /\ UNCHANGED <<files, clock>>
           ELSE IF PageMissing(f.pages, redacted)
           THEN Raise(w, "page not in document") /\ UNCHANGED <<files, clock>>
           ELSE /\ files' = Written(files, AnonFile,
                                    RedactedDoc(f.pages,
                                                Redactions(findings, decisions)),
                                    f.size_mb, clock + 1)
                /\ clock' = clock + 1
                /\ SetWorker(w, [workers[w] EXCEPT
                       !.decisions = decisions, !.findings = findings,
                       !.redactions = Redactions(findings, decisions),
                       !.calls = ApplyCalls(Redactions(findings, decisions)),
                       !.pc = "audit", !.opdf = AnonFile,
                       !.twin = (job.mode = "unify"
                                 /\ job.digital_twin_json # Null)])
    /\ UNCHANGED <<job, queue, alarm, inflight, nreq, resp, document>>

\* render_document as it would be if it moved input_path to its output, as
\* delete_blocks and delete_pages do
RenderAudit_MovesInputPath(w) ==
    /\ At(w, "render_document", "audit")
    /\ \E fail \in {"none", "twin", "audit"} :
          LET me == workers[w]
              withTwin == IF me.twin
                          THEN Written(files, TwinFile, <<>>, 0, clock + 1)
                          ELSE files
          IN  CASE fail = "twin" ->
                     /\ me.twin
                     /\ Raise(w, "OSError")
                     /\ UNCHANGED <<job, files, clock>>
                [] fail = "audit" ->
                     /\ files' = withTwin
                     /\ clock' = clock + 1
                     /\ SetWorker(w, [me EXCEPT !.pc = "except", !.err = "OSError",
                            !.ojson = IF me.twin THEN TwinFile ELSE None])
                     /\ UNCHANGED job
                [] fail = "none" ->
                     /\ files' = Written(withTwin, AuditFile,
                                         <<AuditData(me.findings, me.decisions)>>,
                                         0, clock + 2)
                     /\ clock' = clock + 2
                     /\ job' = [job EXCEPT
                            !.input_path = me.opdf,
                            !.output_pdf_path = me.opdf,
                            !.output_json_path = IF me.twin THEN TwinFile ELSE @,
                            !.audit_path = AuditFile,
                            !.status = "done",
                            !.completed_at = clock + 2]
                     /\ SetWorker(w, IdleWorker)
    /\ UNCHANGED <<queue, alarm, inflight, nreq, resp, document>>

\* render_document: write digital_twin.json (Mode A) and audit.json, then
\* status done.  A write_text can fail (fail names the one that does).
RenderAudit(w) ==
    /\ At(w, "render_document", "audit")
    /\ \E fail \in {"none", "twin", "audit"} :
          LET me == workers[w]
              withTwin == IF me.twin
                          THEN Written(files, TwinFile, <<>>, 0, clock + 1)
                          ELSE files
          IN  CASE fail = "twin" ->
                     /\ me.twin
                     /\ Raise(w, "OSError")
                     /\ UNCHANGED <<job, files, clock>>
                [] fail = "audit" ->
                     /\ files' = withTwin
                     /\ clock' = clock + 1
                     /\ SetWorker(w, [me EXCEPT !.pc = "except", !.err = "OSError",
                            !.ojson = IF me.twin THEN TwinFile ELSE None])
                     /\ UNCHANGED job
                [] fail = "none" ->
                     /\ files' = Written(withTwin, AuditFile,
                                         <<AuditData(me.findings, me.decisions)>>,
                                         0, clock + 2)
                     /\ clock' = clock + 2
                     /\ job' = [job EXCEPT
                            !.output_pdf_path = me.opdf,
                            !.output_json_path = IF me.twin THEN TwinFile ELSE @,
                            !.audit_path = AuditFile,
                            !.status = "done",
                            !.completed_at = clock + 2]
                     /\ SetWorker(w, IdleWorker)
    /\ UNCHANGED <<queue, alarm, inflight, nreq, resp, document>>

\* Both tasks: except Exception as e: job.status = "failed";
\* job.error_message = str(e); session.commit(); raise.  The commit also
\* writes the attributes the task had assigned before the exception.
TaskExcept(w) ==
    /\ workers[w].task # "idle"
    /\ workers[w].pc = "except"
    /\ job' = [job EXCEPT
           !.status = "failed",
           !.error_message = workers[w].err,
           !.output_pdf_path = IF workers[w].opdf # None THEN workers[w].opdf ELSE @,
           !.output_json_path = IF workers[w].ojson # None THEN workers[w].ojson ELSE @]
    /\ SetWorker(w, IdleWorker)
    /\ UNCHANGED <<files, clock, queue, alarm, inflight, nreq, resp, document>>

\* The SIGALRM timer of a worker process expires: timeout_handler raises
\* TimeoutError in whatever the process is executing.  Before the task has
\* loaded the job (get_db_session is outside the try) and inside the except
\* handler the exception ends the run without a commit; inside the try
\* block it is caught like any other.
AlarmFires(w) ==
    /\ alarm[w]
    /\ alarm' = [alarm EXCEPT ![w] = FALSE]
    /\ IF workers[w].task = "idle"
       THEN UNCHANGED workers
       ELSE IF workers[w].pc \in {"start", "except"}
       THEN SetWorker(w, IdleWorker)
       ELSE Raise(w, "AI call exceeded timeout limit")
    /\ UNCHANGED <<job, files, clock, queue, inflight, nreq, resp, document>>

----------------------------------------------------------------------------

Next ==
    \/ RetryJob
    \/ RenderOutput
    \/ \E d \in DecisionChoices : SubmitDecisions(d)
    \/ \E op \in MutatingOps : \E pages \in RequestPages(op) : MutLoad(op, pages)
    \/ \E h \in inflight : MutWork(h)
    \/ \E h \in inflight : MutCommit(h)
    \/ \E h \in inflight : MutThumbs(h)
    \/ \E h \in inflight : MutAbort(h)
    \/ \E w \in Workers : CeleryPick(w)
    \/ \E w \in Workers : ProcStart(w)
    \/ \E w \in Workers : ProcOpen(w)
    \/ \E w \in Workers : ProcPageCap(w)
    \/ \E w \in Workers : ProcThumbnails(w)
    \/ \E w \in Workers : ProcPages(w)
    \/ \E w \in Workers : ProcAnalyzing(w)
    \/ \E w \in Workers : ProcArm(w)
    \/ \E w \in Workers : ProcSections(w)
    \/ \E w \in Workers : ProcFindings(w)
    \/ \E w \in Workers : ProcTwin(w)
    \/ \E w \in Workers : ProcFinish(w)
    \/ \E w \in Workers : RenderStart(w)
    \/ \E w \in Workers : RenderRedact(w)
    \/ \E w \in Workers : RenderAudit(w)
    \/ \E w \in Workers : TaskExcept(w)
    \/ \E w \in Workers : AlarmFires(w)

Spec == Init /\ [][Next]_vars

\* One client that waits: it sends a request only when the job is at rest
\* (no task queued or running, no request in flight).  Every behaviour of
\* SpecSeq is a behaviour of Spec.
Quiet ==
    /\ queue = <<>>
    /\ inflight = {}
    /\ \A w \in Workers : workers[w].task = "idle"

NextSeq ==
    \/ Quiet /\ RetryJob
    \/ Quiet /\ RenderOutput
    \/ Quiet /\ \E d \in DecisionChoices : SubmitDecisions(d)
    \/ Quiet /\ \E op \in MutatingOps : \E pages \in RequestPages(op) :
                   MutLoad(op, pages)
    \/ \E h \in inflight : MutWork(h)
    \/ \E h \in inflight : MutCommit(h)
    \/ \E h \in inflight : MutThumbs(h)
    \/ \E h \in inflight : MutAbort(h)
    \/ \E w \in Workers : CeleryPick(w)
    \/ \E w \in Workers : ProcStart(w)
    \/ \E w \in Workers : ProcOpen(w)
    \/ \E w \in Workers : ProcPageCap(w)
    \/ \E w \in Workers : ProcThumbnails(w)
    \/ \E w \in Workers : ProcPages(w)
    \/ \E w \in Workers : ProcAnalyzing(w)
    \/ \E w \in Workers : ProcArm(w)
    \/ \E w \in Workers : ProcSections(w)
    \/ \E w \in Workers : ProcFindings(w)
    \/ \E w \in Workers : ProcTwin(w)
    \/ \E w \in Workers : ProcFinish(w)
    \/ \E w \in Workers : RenderStart(w)
    \/ \E w \in Workers : RenderRedact(w)
    \/ \E w \in Workers : RenderAudit(w)
    \/ \E w \in Workers : TaskExcept(w)
    \/ \E w \in Workers : AlarmFires(w)

SpecSeq == Init /\ [][NextSeq]_vars

----------------------------------------------------------------------------
(* Rendering alone: render_output has been accepted for a job in review    *)
(* whose stored findings and decisions are any lists up to the bounds.     *)

MaxFindings == 2      \* stored findings of the job
MaxDecisions == 2     \* stored decisions of the job

SeqsUpTo(S, n) == UNION {[1 .. k -> S] : k \in 0 .. n}

\* Findings as process_document stores them: the page is whatever the
\* classifier answered, also one past the end of the document.
StoredFindings ==
    SeqsUpTo({Finding(id, page, action) :
                 id \in {"f1", "f2"}, page \in {1, SmallDoc + 1},
                 action \in {"keep", "remove", "mask"}},
             MaxFindings)

\* Decisions as submit_decisions stores them: for a finding or for another
\* item (a section).
StoredDecisions ==
    SeqsUpTo({Decision(id, action) :
                 id \in {"f1", "s1"}, action \in {"keep", "mask"}},
             MaxDecisions)

\* The state in which the first rendering run of a job starts, for stored
\* findings drawn from the set Fs and stored decisions from the set Ds.
InitRenderOf(Fs, Ds) ==
    /\ \E mode \in {"unify", "layout"}, fs \in Fs,
          ds \in {Null} \cup {Some(d) : d \in Ds} :
          job = [NewJob(mode) EXCEPT
                    !.status = "rendering", !.progress = 100,
                    !.page_count = SmallDoc,
                    !.sections_json = Some(<<"s1">>),
                    !.findings_json = Some(fs),
                    !.digital_twin_json =
                        IF mode = "unify" THEN Some("twin") ELSE Null,
                    !.decisions_json = ds]
    /\ files = [p \in Paths |->
                  IF p = InputFile
                  THEN [ver |-> 1, pages |-> Pages(SmallDoc),
                        size_mb |-> MAX_FILE_SIZE_MB]
                  ELSE IF p = ThumbsDir
                  THEN [ver |-> 1, pages |-> Thumbnails(1, Pages(SmallDoc)),
                        size_mb |-> 0]
                  ELSE NoFile]
    /\ clock = 1
    /\ queue = <<"render_document">>
    /\ workers = [w \in Workers |-> IdleWorker]
    /\ alarm = [w \in Workers |-> FALSE]
    /\ inflight = {}
    /\ nreq = 1
    /\ resp = [id |-> 1, op |-> "render", code |-> 200, detail |-> <<>>, count |-> 0]
    /\ document = NoDocument

InitRender == InitRenderOf(StoredFindings, StoredDecisions)

NextRender ==
    \/ \E w \in Workers : CeleryPick(w)
    \/ \E w \in Workers : RenderStart(w)
    \/ \E w \in Workers : RenderRedact(w)
    \/ \E w \in Workers : RenderAudit(w)
    \/ \E w \in Workers : TaskExcept(w)

SpecRender == InitRender /\ [][NextRender]_vars

----------------------------------------------------------------------------
(* Rendering again: as above, with further render requests and nothing     *)
(* else, so that no mutation and no change of the decisions lies between   *)
(* two rendering runs.                                                     *)

\* Findings within the document, and decisions that change the action of
\* some of them.
RerenderFindings ==
    { <<>>,
      <<Finding("f1", 1, "remove")>>,
      <<Finding("f1", 1, "remove"), Finding("f2", SmallDoc, "keep")>>,
      <<Finding("f1", 2, "keep"), Finding("f2", 1, "mask")>> }

RerenderDecisions ==
    { <<>>,
      <<Decision("f1", "keep")>>,
      <<Decision("f2", "mask"), Decision("s1", "keep")>> }

InitRerender == InitRenderOf(RerenderFindings, RerenderDecisions)

NextRerender ==
    \/ RenderOutput
    \/ \E w \in Workers : CeleryPick(w)
    \/ \E w \in Workers : RenderStart(w)
    \/ \E w \in Workers : RenderRedact(w)
    \/ \E w \in Workers : RenderAudit(w)
    \/ \E w \in Workers : TaskExcept(w)

SpecRerender == InitRerender /\ [][NextRerender]_vars

----------------------------------------------------------------------------
(* delete-pages alone: one delete-pages request for a job in review, with  *)
(* any page list up to the bounds.                                         *)

MaxPageList == 3      \* length of the page list of a delete-pages request

\* Page lists of a request: any order, duplicates, numbers below 0 and at
\* or past the end of the document.
AllPageLists == SeqsUpTo(-1 .. SmallDoc, MaxPageList)

InitPages ==
    /\ \E n \in 1 .. SmallDoc :
          /\ job = [NewJob("layout") EXCEPT
                       !.status = "review", !.progress = 100,
                       !.page_count = n,
                       !.sections_json = Some(<<"s1">>),
                       !.findings_json = Some(<<>>)]
          /\ files = [p \in Paths |->
                        IF p = InputFile
                        THEN [ver |-> 1, pages |-> Pages(n),
                              size_mb |-> MAX_FILE_SIZE_MB]
                        ELSE IF p = ThumbsDir
                        THEN [ver |-> 1, pages |-> Thumbnails(1, Pages(n)),
                              size_mb |-> 0]
                        ELSE NoFile]
    /\ clock = 1
    /\ queue = <<>>
    /\ workers = [w \in Workers |-> IdleWorker]
    /\ alarm = [w \in Workers |-> FALSE]
    /\ inflight = {}
    /\ nreq = 0
    /\ resp = [id |-> 0, op |-> None, code |-> 0, detail |-> <<>>, count |-> 0]
    /\ document = NoDocument

NextPages ==
    \/ nreq = 0 /\ \E pages \in AllPageLists : MutLoad("delete_pages", pages)
    \/ \E h \in inflight : MutWork(h)
    \/ \E h \in inflight : MutCommit(h)
    \/ \E h \in inflight : MutThumbs(h)
    \/ \E h \in inflight : MutAbort(h)

SpecPages == InitPages /\ [][NextPages]_vars

----------------------------------------------------------------------------
(* The preconditions of the mutating endpoints: one client and a job      *)
(* whose input artifact is on disk or is not, with a row of table          *)
(* "documents" that is pinned or not and that the job names or not.  The   *)
(* job is in review, or it is the row create_job and the watcher commit    *)
(* before they store the file (input_path still NULL; the watcher leaves   *)
(* it so when the move of the file fails).                                 *)

InitGuards ==
    /\ \E n \in 1 .. SmallDoc, present \in BOOLEAN, linked \in BOOLEAN,
          stored \in BOOLEAN :
          /\ ~stored => ~present
          /\ job = IF stored
                   THEN [NewJob("layout") EXCEPT
                            !.status = "review", !.progress = 100,
                            !.document_id = IF linked THEN "d1" ELSE None,
                            !.page_count = n,
                            !.sections_json = Some(<<"s1">>),
                            !.findings_json = Some(<<>>)]
                   ELSE [NewJob("layout") EXCEPT
                            !.document_id = IF linked THEN "d1" ELSE None,
                            !.input_path = None]
          /\ files = [p \in Paths |->
                        IF p = InputFile /\ present
                        THEN [ver |-> 1, pages |-> Pages(n),
                              size_mb |-> MAX_FILE_SIZE_MB]
                        ELSE IF p = ThumbsDir
                        THEN [ver |-> 1, pages |-> Thumbnails(1, Pages(n)),
                              size_mb |-> 0]
                        ELSE NoFile]
    /\ clock = 1
    /\ queue = <<>>
    /\ workers = [w \in Workers |-> IdleWorker]
    /\ alarm = [w \in Workers |-> FALSE]
    /\ inflight = {}
    /\ nreq = 0
    /\ resp = [id |-> 0, op |-> None, code |-> 0, detail |-> <<>>, count |-> 0]
    /\ \E pinned \in BOOLEAN : document = [row |-> TRUE, pinned |-> pinned]

NextGuards ==
    \/ Quiet /\ \E op \in MutatingOps :
                   \E pages \in RequestPages(op) \cup {<<>>} : MutLoad(op, pages)
    \/ Quiet /\ \E pinned \in BOOLEAN : UpdateDocument(pinned)
    \/ Quiet /\ DeleteDocument
    \/ \E h \in inflight : MutWork(h)
    \/ \E h \in inflight : MutCommit(h)
    \/ \E h \in inflight : MutThumbs(h)
    \/ \E h \in inflight : MutAbort(h)

SpecGuards == InitGuards /\ [][NextGuards]_vars

----------------------------------------------------------------------------
(* Text replacement: one client sends one text-replace request with any    *)
(* list of replacements up to the bounds to a job in review.               *)

MaxReplacements == 2  \* replacements in the body of a text-replace request

\* Replacements of a request: a word of the document or a word that only
\* an earlier replacement inserts; deletion or new text; all pages, the
\* first page or a page that the smaller documents do not have.
Replacements ==
    { TextReplacement(find, replace, page) :
         find \in {"anna", "nowak"}, replace \in {"", "nowak"},
         page \in {Null, Some(0), Some(SmallDoc - 1)} }

InitReplace == InitPages

NextReplace ==
    \/ nreq = 0 /\ \E replacements \in SeqsUpTo(Replacements, MaxReplacements) :
                      MutRequest("text_replace", <<>>, replacements)
    \/ \E h \in inflight : MutWork(h)
    \/ \E h \in inflight : MutCommit(h)
    \/ \E h \in inflight : MutThumbs(h)
    \/ \E h \in inflight : MutAbort(h)

SpecReplace == InitReplace /\ [][NextReplace]_vars

----------------------------------------------------------------------------
(* Analysis alone: one process_document run on an uploaded document of any  *)
(* page count up to the bound, no requests.                                *)

MaxDocPages == 19     \* page count of the uploaded document

InitAnalysis ==
    /\ \E mode \in {"unify", "layout"} : job = NewJob(mode)
    /\ \E n \in 1 .. MaxDocPages :
          files = [p \in Paths |->
                     IF p = InputFile
                     THEN [ver |-> 1, pages |-> Pages(n),
                           size_mb |-> MAX_FILE_SIZE_MB]
                     ELSE NoFile]
    /\ clock = 1
    /\ queue = <<"process_document">>
    /\ workers = [w \in Workers |-> IdleWorker]
    /\ alarm = [w \in Workers |-> FALSE]
    /\ inflight = {}
    /\ nreq = 0
    /\ resp = [id |-> 0, op |-> None, code |-> 0, detail |-> <<>>, count |-> 0]
    /\ document = NoDocument

NextAnalysis ==
    \/ \E w \in Workers : CeleryPick(w)
    \/ \E w \in Workers : ProcStart(w)
    \/ \E w \in Workers : ProcOpen(w)
    \/ \E w \in Workers : ProcPageCap(w)
    \/ \E w \in Workers : ProcThumbnails(w)
    \/ \E w \in Workers : ProcPages(w)
    \/ \E w \in Workers : ProcAnalyzing(w)
    \/ \E w \in Workers : ProcArm(w)
    \/ \E w \in Workers : ProcSections(w)
    \/ \E w \in Workers : ProcFindings(w)
    \/ \E w \in Workers : ProcTwin(w)
    \/ \E w \in Workers : ProcFinish(w)
    \/ \E w \in Workers : TaskExcept(w)
    \/ \E w \in Workers : AlarmFires(w)

SpecAnalysis == InitAnalysis /\ [][NextAnalysis]_vars

----------------------------------------------------------------------------
(* Task runs: the worker pool has several processes (Celery's prefork pool  *)
(* starts one per core) and the client sends retry and render requests at  *)
(* any time.                                                               *)

PoolSize == 2         \* worker processes of the pool

Pool == 1 .. PoolSize

InitRuns ==
    /\ job = NewJob("layout")
    /\ files = [p \in Paths |->
                  IF p = InputFile
                  THEN [ver |-> 1, pages |-> Pages(SmallDoc),
                        size_mb |-> MAX_FILE_SIZE_MB]
                  ELSE NoFile]
    /\ clock = 1
    /\ queue = <<"process_document">>
    /\ workers = [w \in Pool |-> IdleWorker]
    /\ alarm = [w \in Pool |-> FALSE]
    /\ inflight = {}
    /\ nreq = 0
    /\ resp = [id |-> 0, op |-> None, code |-> 0, detail |-> <<>>, count |-> 0]
    /\ document = NoDocument

NextRuns ==
    \/ RetryJob
    \/ RenderOutput
    \/ \E w \in Pool : CeleryPick(w)
    \/ \E w \in Pool : ProcStart(w)
    \/ \E w \in Pool : ProcOpen(w)
    \/ \E w \in Pool : ProcThumbnails(w)
    \/ \E w \in Pool : ProcPages(w)
    \/ \E w \in Pool : ProcAnalyzing(w)
    \/ \E w \in Pool : ProcArm(w)
    \/ \E w \in Pool : ProcSections(w)
    \/ \E w \in Pool : ProcFindings(w)
    \/ \E w \in Pool : ProcFinish(w)
    \/ \E w \in Pool : RenderStart(w)
    \/ \E w \in Pool : RenderRedact(w)
    \/ \E w \in Pool : RenderAudit(w)
    \/ \E w \in Pool : TaskExcept(w)
    \/ \E w \in Pool : AlarmFires(w)

SpecRuns == InitRuns /\ [][NextRuns]_vars

----------------------------------------------------------------------------
(* Rendering after page deletions: a job in review whose finding was       *)
(* detected on a page of the uploaded document; one client deletes pages   *)
(* and asks for the rendering, one request at a time.                      *)

InitRepaged ==
    /\ \E p \in 1 .. SmallDoc :
          job = [NewJob("layout") EXCEPT
                    !.status = "review", !.progress = 100,
                    !.page_count = SmallDoc,
                    !.sections_json = Some(<<"s1">>),
                    !.findings_json = Some(<<Finding("f1", p, "remove")>>)]
    /\ files = [p \in Paths |->
                  IF p = InputFile
                  THEN [ver |-> 1, pages |-> Pages(SmallDoc),
                        size_mb |-> MAX_FILE_SIZE_MB]
                  ELSE IF p = ThumbsDir
                  THEN [ver |-> 1, pages |-> Thumbnails(1, Pages(SmallDoc)),
                        size_mb |-> 0]
                  ELSE NoFile]
    /\ clock = 1
    /\ queue = <<>>
    /\ workers = [w \in Workers |-> IdleWorker]
    /\ alarm = [w \in Workers |-> FALSE]
    /\ inflight = {}
    /\ nreq = 0
    /\ resp = [id |-> 0, op |-> None, code |-> 0, detail |-> <<>>, count |-> 0]
    /\ document = NoDocument

NextRepaged ==
    \/ Quiet /\ \E pages \in PageLists : MutLoad("delete_pages", pages)
    \/ Quiet /\ RenderOutput
    \/ \E h \in inflight : MutWork(h)
    \/ \E h \in inflight : MutCommit(h)
    \/ \E h \in inflight : MutThumbs(h)
    \/ \E h \in inflight : MutAbort(h)
    \/ \E w \in Workers : CeleryPick(w)
    \/ \E w \in Workers : RenderStart(w)
    \/ \E w \in Workers : RenderRedact(w)
    \/ \E w \in Workers : RenderAudit(w)
    \/ \E w \in Workers : TaskExcept(w)

SpecRepaged == InitRepaged /\ [][NextRepaged]_vars

----------------------------------------------------------------------------
(* Creation: the row of the job has just been committed by create_job (any *)
(* mode) or by the watcher (mode layout); the client, who can see the row, *)
(* sends retry and render requests at any time.                            *)

InitCreate ==
    /\ \E op \in CreateOps,
          mode \in {"unify", "layout"} :
          /\ op = "watcher" => mode = "layout"
          /\ job = [NewJob(mode) EXCEPT !.input_path = None]
          /\ inflight = {Creator(op)}
    /\ files = [p \in Paths |-> NoFile]
    /\ clock = 1
    /\ queue = <<>>
    /\ workers = [w \in Workers |-> IdleWorker]
    /\ alarm = [w \in Workers |-> FALSE]
    /\ nreq = 0
    /\ resp = [id |-> 0, op |-> None, code |-> 0, detail |-> <<>>, count |-> 0]
    /\ document = NoDocument

NextCreate ==
    \/ \E h \in inflight : CreateStore(h)
    \/ \E h \in inflight : CreateFails(h)
    \/ \E h \in inflight : CreatePath(h)
    \/ \E h \in inflight : CreateDelay(h)
    \/ RetryJob
    \/ RenderOutput
    \/ \E w \in Workers : CeleryPick(w)
    \/ \E w \in Workers : ProcStart(w)
    \/ \E w \in Workers : ProcOpen(w)
    \/ \E w \in Workers : ProcThumbnails(w)
    \/ \E w \in Workers : ProcPages(w)
    \/ \E w \in Workers : ProcAnalyzing(w)
    \/ \E w \in Workers : ProcArm(w)
    \/ \E w \in Workers : ProcSections(w)
    \/ \E w \in Workers : ProcFindings(w)
    \/ \E w \in Workers : ProcTwin(w)
    \/ \E w \in Workers : ProcFinish(w)
    \/ \E w \in Workers : RenderStart(w)
    \/ \E w \in Workers : RenderRedact(w)
    \/ \E w \in Workers : RenderAudit(w)
    \/ \E w \in Workers : TaskExcept(w)
    \/ \E w \in Workers : AlarmFires(w)

SpecCreate == InitCreate /\ [][NextCreate]_vars

----------------------------------------------------------------------------
(* Properties *)

\* The step in which request h commits its update of the job.
Commits(h) ==
    /\ h \in inflight
    /\ h.pc = "saved"
    /\ [h EXCEPT !.pc = "committed"] \in inflight'

\* A step taken by request h: its record changes or leaves inflight.
StepOf(h) == h \in inflight /\ h \notin inflight'

\* The step in which the task run on worker w ends.
RunEnds(w) == workers[w].task # "idle" /\ workers'[w].task = "idle"

\* The step in which a retry request is answered.
RetryAnswered == nreq' = nreq + 1 /\ resp'.id = nreq + 1 /\ resp'.op = "retry"

\* C1: after every successful text-replace, delete-blocks or delete-pages
\* the job's input_path is the path of the artifact the operation wrote.
C1_PointerFollowsArtifact ==
    [][\A h \in inflight : Commits(h) => job'.input_path = h.out]_vars

StatusRank(s) ==
    CASE s = "queued"     -> 0
      [] s = "processing" -> 1
      [] s = "analyzing"  -> 2
      [] s = "review"     -> 3
      [] s = "rendering"  -> 4
      [] s = "done"       -> 5
      [] s = "failed"     -> 6

\* C2: the persisted status only moves forward in the order queued,
\* processing, analyzing, review, rendering, done, or to failed; the only
\* backward step is an accepted retry, which sets it to queued.
C2_StatusMonotonic ==
    [][ job'.status # job.status =>
          \/ job'.status = "failed"
          \/ StatusRank(job'.status) > StatusRank(job.status)
          \/ RetryAnswered /\ resp'.code = 200 /\ job'.status = "queued" ]_vars

\* Operations that have read the job's input_path and not yet committed.
Mutating ==
    Cardinality(inflight)
    + Cardinality({w \in Workers : workers[w].task = "render_document"
                                   /\ workers[w].opdf # None})

\* C3: for one job, no two artifact-mutating operations (text-replace,
\* delete-blocks, delete-pages, render_document) are in progress at the
\* same time.
C3_OneMutationAtATime == Mutating <= 1

DeleteOps == {"delete_blocks", "delete_pages"}

\* C4: in delete-blocks and delete-pages input_path changes only in the
\* commit that follows the complete write of the new artifact; a step of the
\* operation before that leaves input_path as it is and does not modify the
\* file it names.
C4_PointerAfterWrite ==
    [][\A h \in inflight : h.op \in DeleteOps /\ StepOf(h) =>
          IF Commits(h)
          THEN job'.input_path = h.out /\ Exists(h.out)
          ELSE /\ job'.input_path = job.input_path
               /\ files'[job.input_path] = files[job.input_path] ]_vars

\* C5: every operation writes its PDF to a path that holds no earlier
\* artifact of the job.
C5_NeverOverwrites ==
    [][\A p \in PdfPaths : files'[p] # files[p] => ~Exists(p)]_vars

\* C6: when a process_document or render_document run ends, normally or
\* through an exception, the job is not left in processing, analyzing or
\* rendering: process_document ends with review or failed, render_document
\* with done (completed_at set) or failed, and after an exception
\* error_message holds its message.
C6_RunEndsSettled ==
    [][\A w \in Workers : RunEnds(w) =>
          /\ workers[w].task = "process_document"
                => job'.status \in {"review", "failed"}
          /\ workers[w].task = "render_document"
                => \/ job'.status = "failed"
                   \/ job'.status = "done" /\ job'.completed_at > 0
          /\ workers[w].pc = "except"
                => /\ job'.status = "failed"
                   /\ job'.error_message = workers[w].err ]_vars

\* C7: an accepted retry leaves the job with status queued, progress 0 and
\* no error_message, and queues one process_document run.
C7_RetryResets ==
    [][ RetryAnswered /\ resp'.code = 200 =>
          /\ job'.status = "queued"
          /\ job'.progress = 0
          /\ job'.error_message = None
          /\ queue' = Append(queue, "process_document") ]_vars

\* A retry has just been accepted on a job whose run had ended after it
\* opened the document: the row is reset and the new run is queued.
C7_Witness ==
    /\ resp.op = "retry" /\ resp.code = 200
    /\ job.page_count > 0
    /\ \A w \in Workers : workers[w].task = "idle"
    /\ job.status = "queued" /\ job.progress = 0
    /\ job.error_message = None
    /\ queue = <<"process_document">>

\* C8: a retry request on a job whose status is done or queued is rejected
\* with 400, changes no field of the job and queues no run.
C8_RetryRejected ==
    [][ RetryAnswered /\ job.status \in {"done", "queued"} =>
          /\ resp'.code = 400
          /\ job' = job
          /\ queue' = queue ]_vars

\* A retry has just been rejected on a done job.
C8_Witness ==
    /\ resp.op = "retry" /\ resp.code = 400
    /\ job.status = "done"

\* C9: error_message is non-empty only if the status is failed.
C9_ErrorOnlyWhenFailed ==
    job.error_message # None => job.status = "failed"

\* C10: output_pdf_path, output_json_path and audit_path are written only
\* by a rendering run that ends with status done.
C10_OutputsOnlyByRender ==
    [][ \/ job'.output_pdf_path # job.output_pdf_path
        \/ job'.output_json_path # job.output_json_path
        \/ job'.audit_path # job.audit_path
        => \E w \in Workers : /\ workers[w].task = "render_document"
                              /\ RunEnds(w)
                              /\ job'.status = "done" ]_vars

\* C11: between two consecutive retries the persisted progress stays within
\* 0..100 and never decreases: only an accepted retry lowers it.
C11_ProgressMonotonic ==
    [][ /\ job'.progress \in 0 .. 100
        /\ job'.progress < job.progress => RetryAnswered /\ resp'.code = 200
      ]_vars

\* The positions of process_document at which a classifier call is made.
AnalysisPcs == {"sections", "findings", "twin"}

\* The position after the analysis stage at pc.
StageAfter(pc) ==
    CASE pc = "sections" -> "findings"
      [] pc = "findings" -> IF job.mode = "unify" THEN "twin" ELSE "finish"
      [] pc = "twin"     -> "finish"

\* The row after the analysis stage at pc has stored its empty result.
EmptyResult(pc, j) ==
    CASE pc = "sections" -> j.sections_json = Some(<<>>)
      [] pc = "findings" -> j.findings_json = Some(<<>>)
      [] pc = "twin"     -> j.digital_twin_json = Some("minimal twin")

\* The step in which the watchdog interrupts the classifier call of w.
TimesOut(w) ==
    /\ workers[w].task = "process_document"
    /\ workers[w].pc \in AnalysisPcs
    /\ alarm[w] /\ ~alarm'[w]

\* The step in which the classifier call of w returns an answer that does
\* not parse.
Malformed(w) ==
    /\ workers[w].task = "process_document"
    /\ workers[w].pc \in AnalysisPcs
    /\ EmptyResult(workers[w].pc, job') /\ ~EmptyResult(workers[w].pc, job)

\* C12: when an analysis call times out or returns a malformed response,
\* that stage stores its empty result and the run goes on to the next stage;
\* a run in which a call timed out does not end in failed.
C12_DegradesToEmpty ==
    [][\A w \in Workers :
          /\ TimesOut(w) \/ Malformed(w) =>
                /\ EmptyResult(workers[w].pc, job')
                /\ workers'[w].pc = StageAfter(workers[w].pc)
          /\ /\ RunEnds(w)
             /\ workers[w].task = "process_document"
             /\ workers[w].err = "AI call exceeded timeout limit"
             => job'.status = "review" ]_vars

OwnStep(w) == workers'[w] # workers[w] /\ ~(alarm[w] /\ ~alarm'[w])

\* C14: every classifier call of a process_document run receives exactly
\* the first min(page count, MAX_PAGES_FOR_AI) page images of the document,
\* and the page-limit check of a longer document lets the run go on.
C14_FirstPagesOnly ==
    [][\A w \in Workers :
          /\ workers[w].task = "process_document" /\ workers[w].pc \in AnalysisPcs
                => LET doc == workers[w].doc
                       k == Min(Len(doc), MAX_PAGES_FOR_AI)
                   IN  workers[w].page_images = [i \in 1 .. k |-> doc[i]]
          /\ At(w, "process_document", "pagecap") /\ OwnStep(w)
                => /\ workers'[w].pc = "thumbnails"
                   /\ job'.status # "failed" ]_vars

\* A classifier call is about to be made for a document longer than the
\* cap, with the first MAX_PAGES_FOR_AI page images.
C14_Witness ==
    \E w \in Workers :
        /\ workers[w].task = "process_document"
        /\ workers[w].pc \in AnalysisPcs
        /\ Len(workers[w].doc) > MAX_PAGES_FOR_AI
        /\ Len(workers[w].page_images) = MAX_PAGES_FOR_AI

\* The user's decision for finding f when one exists (the last stored one
\* for its id), its suggested_action otherwise.
Effective(f, stored) ==
    LET mine == {i \in 1 .. Len(stored) : stored[i].item_id = f.id}
    IN  IF mine = {} THEN f.suggested_action
        ELSE stored[CHOOSE i \in mine : \A k \in mine : k <= i].action

\* The positions of the stored findings whose effective action is remove or
\* mask.
ToRedact(fs, stored) ==
    {i \in 1 .. Len(fs) : Effective(fs[i], stored) \in {"remove", "mask"}}

C16_AuditCounts ==
    [][\A w \in Workers :
          At(w, "render_document", "audit") /\ files'[AuditFile] # files[AuditFile] =>
             LET audit_data == files'[AuditFile].pages[1]
             IN  /\ audit_data.redactions_applied = Len(workers[w].redactions)
                 /\ audit_data.redactions_applied =
                       Cardinality(ToRedact(workers[w].findings,
                                            Stored(job.decisions_json)))
                 /\ audit_data.findings_count = Len(workers[w].findings) ]_vars

\* The page numbers of a request that are below 0 or not below n.
OutOfRange(pages, n) ==
    {i \in 1 .. Len(pages) : pages[i] < 0 \/ pages[i] >= n}

\* C17: delete-pages with a page list holding an index below 0 or at least
\* the document's page count is rejected with 400 naming exactly the
\* offending indices, and nothing changes: no file is written and the job
\* row keeps every value.
C17_InvalidPagesRejected ==
    [][\A h \in inflight :
          LET n == Len(files[h.input_path].pages)
              bad == OutOfRange(h.pages, n)
          IN  /\ h.op = "delete_pages" /\ h.pc = "loaded" /\ h \notin inflight'
              /\ Exists(h.input_path) /\ bad # {}
              => /\ resp'.id = h.id /\ resp'.code = 400
                 /\ Len(resp'.detail) = Cardinality(bad)
                 /\ \A i \in bad :
                       resp'.detail[Cardinality({k \in bad : k <= i})] = h.pages[i]
                 /\ files' = files
                 /\ job' = job ]_vars

\* A delete-pages request with two offending indices (one past the end, one
\* negative) has been rejected, both are reported in the order given, and
\* the document still has all its pages.
C17_Witness ==
    /\ resp.op = "delete_pages" /\ resp.code = 400
    /\ resp.detail = <<SmallDoc, -1>>
    /\ job.input_path = InputFile /\ job.page_count = SmallDoc
    /\ files[InputFile].pages = Pages(SmallDoc)
    /\ ~Exists(PagesFile)

\* The pages of doc whose 0-indexed position is not requested, in their
\* original order.
Kept(doc, pages) ==
    LET keep == {i \in 1 .. Len(doc) : (i - 1) \notin Range(pages)}
    IN  [k \in 1 .. Cardinality(keep) |->
            doc[CHOOSE i \in keep : Cardinality({m \in keep : m <= i}) = k]]

\* C18: for a non-empty list of valid page indices, in any order and with
\* or without duplicates, delete-pages writes an artifact holding exactly the
\* non-requested pages in their original order, so the new page count is the
\* original count minus the number of distinct indices.  (Stated for lists
\* that leave at least one page: a PDF without pages cannot be saved.)
C18_DeletesRequestedPages ==
    [][\A h \in inflight :
          LET doc == files[h.input_path].pages
          IN  /\ h.op = "delete_pages" /\ h.pc = "loaded" /\ StepOf(h)
              /\ Exists(h.input_path)
              /\ h.pages # <<>> /\ OutOfRange(h.pages, Len(doc)) = {}
              /\ Cardinality(Range(h.pages)) < Len(doc)
              => /\ files'[PagesFile].pages = Kept(doc, h.pages)
                 /\ Len(files'[PagesFile].pages)
                       = Len(doc) - Cardinality(Range(h.pages))
                 /\ \E g \in inflight' :
                       /\ g.id = h.id /\ g.pc = "saved"
                       /\ g.new_count = Len(doc) - Cardinality(Range(h.pages))
      ]_vars

\* The step in which request h answers 200.
Succeeds(h) ==
    /\ h \in inflight /\ h \notin inflight'
    /\ resp'.id = h.id /\ resp'.code = 200

\* C19: after a successful delete-pages the job's page_count is the page
\* count of the artifact input_path names, and the thumbnail directory
\* holds exactly one thumbnail per page of that artifact, each generated
\* from it, and none of the previous artifact.
C19_CountAndThumbnails ==
    [][\A h \in inflight : h.op = "delete_pages" /\ Succeeds(h) =>
          LET artifact == files'[job'.input_path]
              thumbs == files'[ThumbsDir].pages
          IN  /\ job'.input_path = PagesFile
              /\ job'.page_count = Len(artifact.pages)
              /\ Len(thumbs) = Len(artifact.pages)
              /\ \A i \in 1 .. Len(thumbs) :
                    /\ thumbs[i].of = artifact.ver
                    /\ thumbs[i].page = artifact.pages[i] ]_vars

\* C20: a delete-blocks request with a block whose page index is outside
\* [0, page count) is not answered with success unless the invalid index is
\* reported: the block is not skipped silently.
C20_BadBlockReported ==
    [][\A h \in inflight :
          LET bad == OutOfRange(h.pages, h.new_count)
          IN  h.op = "delete_blocks" /\ Succeeds(h) /\ bad # {}
              => /\ \A i \in bad : h.pages[i] \in Range(resp'.detail)
                 /\ resp'.count = Len(h.pages) - Cardinality(bad) ]_vars

\* The step in which request h, still before its existence check, finds
\* the artifact it read from input_path missing.
FindsMissing(h) ==
    /\ h \in inflight /\ h.pc = "loaded" /\ StepOf(h)
    /\ ~Exists(h.input_path)

\* C21: text-replace, delete-blocks and delete-pages on a job whose input
\* artifact is not on disk fail with a not-found error (404) before any
\* mutation: no file is written, no field of the job changes.
C21_MissingArtifactNotFound ==
    [][\A h \in inflight : FindsMissing(h) =>
          /\ h \notin inflight' /\ resp'.id = h.id
          /\ resp'.code = 404
          /\ files' = files
          /\ job' = job ]_vars

\* The step in which a request to the documents API is answered.
DocumentAnswered(op) ==
    nreq' = nreq + 1 /\ resp'.id = nreq + 1 /\ resp'.op = op

\* The job's document is pinned.
Retained == job.document_id # None /\ document.row /\ document.pinned

RenderAnswered == nreq' = nreq + 1 /\ resp'.id = nreq + 1 /\ resp'.op = "render"

\* The page ids of a rendered document.
PageIds(doc) == [i \in 1 .. Len(doc) |-> doc[i].page]

\* C23: rendering a job again with no mutation or decision change in
\* between is allowed, also when the job is done, and is idempotent: every
\* render request is accepted and queues a run; a run reads the artifact
\* input_path names; the run after an earlier one writes the same redacted
\* document and the same audit record; no step changes input_path.
C23_RerenderIdempotent ==
    [][ /\ RenderAnswered
           => resp'.code = 200 /\ queue' = Append(queue, "render_document")
        /\ job'.input_path = job.input_path
        /\ \A w \in Workers :
              /\ At(w, "render_document", "redact") /\ workers'[w].pc = "audit"
                 => /\ PageIds(files'[AnonFile].pages) = files[job.input_path].pages
                    /\ Exists(AnonFile)
                          => files'[AnonFile].pages = files[AnonFile].pages
              /\ At(w, "render_document", "audit") /\ workers'[w].task = "idle"
                 /\ Exists(AuditFile)
                 => files'[AuditFile].pages = files[AuditFile].pages ]_vars

\* A done job has been rendered a second time: the second run has written
\* the redacted document and the audit record again, and a page is covered.
C23_Witness ==
    /\ job.status = "done" /\ nreq > 1
    /\ queue = <<>> /\ \A w \in Workers : workers[w].task = "idle"
    /\ files[AnonFile].ver > 4
    /\ files[AuditFile].ver > files[AnonFile].ver
    /\ \E i \in 1 .. Len(files[AnonFile].pages) :
          files[AnonFile].pages[i].fills # <<>>
    /\ job.input_path = InputFile

\* C24: the status becomes rendering only from review or from done; a
\* render request on a job that is queued, processing, analyzing or failed
\* does not move it to rendering.
C24_RenderingFromReviewOrDone ==
    [][ job'.status = "rendering" /\ job.status # "rendering"
           => job.status \in {"review", "done"} ]_vars

\* The step in which a submit-decisions request is answered.
DecisionsAnswered ==
    nreq' = nreq + 1 /\ resp'.id = nreq + 1 /\ resp'.op = "decisions"

\* C25: submitting decisions is a pure data write: it replaces the stored
\* decisions and the update timestamp, leaves every other field of the job
\* (status, progress, input_path, output paths, findings, sections,
\* error_message) as it is, writes no file and starts no background task.
C25_DecisionsPureWrite ==
    [][ DecisionsAnswered =>
          /\ resp'.code = 200
          /\ job'.decisions_json # Null
          /\ job'.decisions_json[1] \in DecisionChoices
          /\ job'.updated_at = clock
          /\ job' = [job EXCEPT !.decisions_json = job'.decisions_json,
                                !.updated_at = job'.updated_at]
          /\ queue' = queue
          /\ workers' = workers
          /\ files' = files ]_vars

\* Decisions have been stored for a job after its rendering run ended: the
\* job is still done, with its outputs, and nothing is queued or running.
C25_Witness ==
    /\ resp.op = "decisions" /\ resp.code = 200
    /\ job.decisions_json # Null
    /\ job.status = "done" /\ job.audit_path = AuditFile
    /\ job.completed_at > 0 /\ job.updated_at >= job.completed_at
    /\ queue = <<>> /\ \A w \in Workers : workers[w].task = "idle"

\* The confidence the claim prescribes for a finished run: the maximum of
\* the run's extraction confidence (0 without extraction) and the mean
\* confidence of its findings (0 without findings).
ClaimedConfidence(j) ==
    Max({IF j.mode = "unify" THEN TwinConfidence ELSE 0,
         IF Stored(j.findings_json) = <<>> THEN 0
         ELSE AvgConfidence(Stored(j.findings_json))})

\* C26: when a process_document run ends in review, the job's confidence
\* is the maximum of that run's extraction confidence and the mean
\* confidence of that run's findings, whatever an earlier run left.
\* (Stated for runs that stored at least one finding.)
C26_ConfidenceOfThisRun ==
    [][\A w \in Workers :
          /\ RunEnds(w) /\ At(w, "process_document", "finish")
          /\ job'.status = "review"
          /\ Stored(job'.findings_json) # <<>>
          => job'.confidence = ClaimedConfidence(job') ]_vars

FillsOn(doc, r) == doc[Position(doc, r.page)].fills

C29_MarkAllThenFlatten ==
    [][\A w \in Workers :
          At(w, "render_document", "redact") /\ workers'[w].pc = "audit" =>
             LET calls == workers'[w].calls
             IN  \A i \in 1 .. Len(calls), k \in 1 .. Len(calls) :
                    calls[i].op = "flatten" /\ calls[k].op = "mark" => k < i
      ]_vars

\* The text-replace requests that have saved their output artifact.
Replacing == {h \in inflight : h.op = "text_replace" /\ h.pc # "loaded"}

\* C30: in text-replace every match of every replacement is queued (marked,
\* or covered and overwritten) before any flatten runs, and the flatten is
\* one pass over the pages: each page is flattened once, after the last
\* match is queued, never once per match.
C30_QueueAllThenFlattenOnce ==
    \A h \in Replacing :
       \A i \in 1 .. Len(h.calls), k \in 1 .. Len(h.calls) :
          h.calls[i].op = "flatten" =>
             /\ h.calls[k].op # "flatten" => k < i
             /\ h.calls[k].op = "flatten" /\ h.calls[k].page = h.calls[i].page
                   => k = i

\* A request has queued a deletion and a replacement, both with matches,
\* and has flattened every page of a document of more than one page.
C30_Witness ==
    \E h \in Replacing :
       /\ \E i \in 1 .. Len(h.calls) : h.calls[i].op = "mark"
       /\ \E i \in 1 .. Len(h.calls) : h.calls[i].op = "insert"
       /\ Len(h.changes) > 2
       /\ Cardinality({i \in 1 .. Len(h.calls) : h.calls[i].op = "flatten"}) > 1

Clamp(x, lo, hi) == Min(hi, Max({lo, x}))

\* The step in which worker w sets the watchdog alarm of its run.
Arms(w) == At(w, "process_document", "arm") /\ workers'[w].pc = "sections"

\* The step in which worker w calls the classifier.
Calls(w) ==
    /\ workers[w].task = "process_document"
    /\ Len(workers'[w].classifier) = Len(workers[w].classifier) + 1

\* The timeout of the call that worker w makes in this step.
CallTimeout(w) == workers'[w].classifier[Len(workers'[w].classifier)].timeout

\* The timeout of every classifier call and the watchdog of worker w are
\* the ones that t seconds per call give.
TimeoutsAre(w, t) ==
    /\ Arms(w) => workers'[w].watchdog = 3 * t
    /\ Calls(w) => CallTimeout(w) = t

\* C31: for a document of pageCount pages every analysis call runs under
\* a timeout of clamp(pageCount * 10, 60, 180) seconds and the watchdog of
\* the whole sequence is set to 3 times that.
C31_TimeoutOfPageCount ==
    [][\A w \in Workers :
          TimeoutsAre(w, Clamp(Len(workers[w].doc) * 10, 60, 180))]_vars

\* C31, amended: the timeout is scaled by the number of pages sent to the
\* classifier, min(pageCount, MAX_PAGES_FOR_AI): every analysis call runs
\* under clamp(min(pageCount, MAX_PAGES_FOR_AI) * 10, 60, 180) seconds and
\* the watchdog is set to 3 times that.
C31_TimeoutOfPagesSent ==
    [][\A w \in Workers :
          TimeoutsAre(w, Clamp(Min(Len(workers[w].doc), MAX_PAGES_FOR_AI) * 10,
                               60, 180))]_vars

\* A run on a document of more pages than are sent has made its three
\* calls under 150 seconds each, with the watchdog at 450.
C31_Witness ==
    \E w \in Workers :
       /\ workers[w].task = "process_document"
       /\ Len(workers[w].doc) > MAX_PAGES_FOR_AI
       /\ Len(workers[w].classifier) = 3
       /\ \A i \in 1 .. 3 : workers[w].classifier[i].timeout = 150
       /\ workers[w].watchdog = 450

\* The classifier calls worker w has made in its run, by name.
CallNames(w) ==
    [i \in 1 .. Len(workers[w].classifier) |-> workers[w].classifier[i].call]

\* The call that worker w makes in this step.
CallMade(w) == workers'[w].classifier[Len(workers'[w].classifier)].call

\* The step in which the process_document run of worker w returns.
Returns(w) == At(w, "process_document", "finish") /\ workers'[w].task = "idle"

\* C32: in one process_document run the classifier is called for the
\* sections, then for the sensitive findings, then for the structured
\* extraction; a call starts only after the one before it has returned and
\* its result is saved; the extraction is called if and only if the mode
\* of the job is unify.
C32_CallsInOrder ==
    [][\A w \in Workers :
          /\ Calls(w) /\ CallMade(w) = "detect_sections" =>
                CallNames(w) = <<>>
          /\ Calls(w) /\ CallMade(w) = "detect_sensitive_data" =>
                /\ CallNames(w) = <<"detect_sections">>
                /\ job.sections_json # Null
          /\ Calls(w) /\ CallMade(w) = "extract_digital_twin" =>
                /\ CallNames(w) = <<"detect_sections", "detect_sensitive_data">>
                /\ job.findings_json # Null
                /\ job.mode = "unify"
          /\ Returns(w) =>
                CallNames(w) =
                   IF job.mode = "unify"
                   THEN <<"detect_sections", "detect_sensitive_data",
                          "extract_digital_twin">>
                   ELSE <<"detect_sections", "detect_sensitive_data">>
      ]_vars

\* A run in mode unify has saved the result of its third call, and a run
\* in another mode would be at the same point after two calls.
C32_Witness ==
    \E w \in Workers :
       /\ At(w, "process_document", "finish")
       /\ job.mode = "unify"
       /\ Len(CallNames(w)) = 3
       /\ job.digital_twin_json # Null

\* Replacement r targets the 0-indexed page p of a document of n pages.
Targets(r, p, n) == p \in 0 .. n - 1 /\ (r.page = Null \/ r.page = Some(p))

\* The number of occurrences of word on original page id.
Occurrences(id, word) ==
    Cardinality({i \in 1 .. Len(PageText(id)) : PageText(id)[i] = word})

\* The number of occurrences the k-th replacement of a request finds on
\* page p of the open document doc: those of the page as uploaded and the
\* text that earlier replacements of the request have inserted on it.
RECURSIVE Located(_, _, _, _)
RECURSIVE Inserted(_, _, _, _, _)
Inserted(doc, repls, k, p, upto) ==
    IF upto = 0 THEN 0
    ELSE Inserted(doc, repls, k, p, upto - 1)
         + (IF repls[upto].replace = repls[k].find
            THEN Located(doc, repls, upto, p) ELSE 0)

Located(doc, repls, k, p) ==
    IF Targets(repls[k], p, Len(doc))
    THEN Occurrences(doc[p + 1], repls[k].find)
         + Inserted(doc, repls, k, p, k - 1)
    ELSE 0

RECURSIVE LocatedUpTo(_, _, _, _)
LocatedUpTo(doc, repls, k, p) ==
    IF p < 0 THEN 0
    ELSE Located(doc, repls, k, p) + LocatedUpTo(doc, repls, k, p - 1)

\* The number of occurrences all replacements of a request find.
RECURSIVE AllLocated(_, _, _)
AllLocated(doc, repls, k) ==
    IF k = 0 THEN 0
    ELSE LocatedUpTo(doc, repls, k, Len(doc) - 1) + AllLocated(doc, repls, k - 1)

\* The records of a change log for one find, replacement and page.
RecordsOf(log, r, p) ==
    {i \in 1 .. Len(log) :
        log[i].find = r.find /\ log[i].replace = r.replace /\ log[i].page = p}

\* The replacements of a request that have the find and replacement of r.
SameAs(repls, r) ==
    {k \in 1 .. Len(repls) :
        repls[k].find = r.find /\ repls[k].replace = r.replace}

RECURSIVE SumLocated(_, _, _, _)
SumLocated(doc, repls, ks, p) ==
    IF ks = {} THEN 0
    ELSE LET k == CHOOSE k \in ks : TRUE
         IN  Located(doc, repls, k, p) + SumLocated(doc, repls, ks \ {k}, p)

\* log has one record for every occurrence the replacements repls find
\* in doc, marked delete exactly for an empty replacement.
ChangeLogOf(log, doc, repls) ==
    /\ Len(log) = AllLocated(doc, repls, Len(repls))
    /\ \A k \in 1 .. Len(repls), p \in 0 .. Len(doc) - 1 :
          Cardinality(RecordsOf(log, repls[k], p))
             = SumLocated(doc, repls, SameAs(repls, repls[k]), p)
    /\ \A i \in 1 .. Len(log) :
          /\ log[i].action \in {"delete", "replace"}
          /\ log[i].action = "delete" <=> log[i].replace = ""

\* The step in which text-replace request h is answered 200.
ReplaceAnswered(h) ==
    /\ h \in inflight /\ h.op = "text_replace" /\ h.pc = "committed"
    /\ resp'.id = h.id /\ resp'.code = 200

\* C33: the change log text-replace returns has exactly one record per
\* occurrence of a find string found on a targeted page, marked delete if
\* and only if the replacement is empty and replace otherwise; a request
\* that finds no occurrence succeeds, with an empty change log.
C33_ChangeLog ==
    [][\A h \in inflight :
          LET doc == files[h.input_path].pages
          IN  /\ ReplaceAnswered(h) =>
                    /\ ChangeLogOf(h.changes, doc, h.replacements)
                    /\ resp'.count = Len(h.changes)
              /\ h.op = "text_replace" /\ h.pc = "loaded"
                 /\ h \notin inflight'
                 /\ AllLocated(doc, h.replacements, Len(h.replacements)) = 0
                    => \E g \in inflight' :
                          g.id = h.id /\ g.pc = "saved" /\ g.changes = <<>>
      ]_vars

\* A request whose second replacement deletes text that its first
\* replacement inserted, besides text of the document, has been answered.
C33_Witness ==
    /\ resp.op = "text_replace" /\ resp.code = 200 /\ resp.count > 4
    /\ nreq = 1 /\ inflight = {}

\* The worker processes that are running a task of the job.
Running == {w \in DOMAIN workers : workers[w].task # "idle"}

\* C34: at most one background task run (process_document or
\* render_document) of the job is in flight at any time, whatever the
\* interleaving of retry and render requests with running tasks.
C34_OneRunAtATime == Cardinality(Running) <= 1

\* C35: when a process_document run ends, on success or on a failure of
\* an analysis call, the watchdog alarm it armed is disarmed: no alarm is
\* left to fire in the worker process after the run.
C35_AlarmDisarmedAtEnd ==
    [][\A w \in Workers :
          RunEnds(w) /\ workers[w].task = "process_document" => ~alarm'[w]
      ]_vars

\* The step in which the rendering run of worker w has queued its
\* redactions and saved the redacted document.
Redacts(w) == At(w, "render_document", "redact") /\ workers'[w].pc = "audit"

\* C36: every redaction a rendering run queues targets a page index within
\* [0, pageCount) of the artifact input_path names, and that page is the
\* page the finding was detected on (its 1-indexed page number in the
\* uploaded document), also after earlier delete-pages operations.
C36_RedactionOnDetectedPage ==
    [][\A w \in Workers : Redacts(w) =>
          LET doc == files[job.input_path].pages
              redactions == workers'[w].redactions
              found == Redacted(workers'[w].findings, workers'[w].decisions)
          IN  \A k \in 1 .. Len(redactions) :
                 /\ redactions[k].page \in 0 .. Len(doc) - 1
                 /\ doc[redactions[k].page + 1] = found[k].page
      ]_vars

\* C37: a job whose status is done has output_pdf_path and completed_at
\* set: a PDF download that passes the status check has a path to serve.
C37_DoneHasOutput ==
    job.status = "done" => job.output_pdf_path # None /\ job.completed_at > 0

\* The job is done through text-replace alone: no rendering run has
\* written its audit record.
C37_Witness ==
    /\ job.status = "done"
    /\ job.audit_path = None
    /\ job.output_pdf_path = ReplacedFile

\* A process_document run of the job is queued or running.
ProcessingPending ==
    \/ \E i \in 1 .. Len(queue) : queue[i] = "process_document"
    \/ \E w \in Workers : workers[w].task = "process_document"

\* C38: a process_document run is queued only after the uploaded file is
\* stored and input_path is committed, for jobs of the upload endpoint and
\* of the watch folder: no run finds the job with an empty input_path.
C38_QueuedAfterStored ==
    ProcessingPending => job.input_path # None /\ Exists(job.input_path)

====
